---------------------------- MODULE Spec2Model ----------------------------
(***************************************************************************)
(* A model of tanks.py: the two-player artillery game.                     *)
(*                                                                         *)
(* Numbers.  The program computes in IEEE doubles.  The model computes in  *)
(* binary fixed point: a finite number is the integer count of 1/Q units,  *)
(* Q = 2^FracBits, and every product, quotient and square root is rounded  *)
(* to that resolution, as a double rounds to its mantissa.  The special    *)
(* values NaN, +Inf and -Inf are integers outside the finite range; every  *)
(* comparison with NaN is false, as in IEEE arithmetic.                    *)
(*                                                                         *)
(* Indices.  Python sequences are 0-based and TLA+ sequences 1-based: the  *)
(* point with Python index i is x[i+1] here.  firstInBox returns Python    *)
(* indices (and -1), as the code does.                                     *)
(***************************************************************************)
EXTENDS Integers, Sequences, FiniteSets, TLC

VARIABLES
    pc,           \* position of the running code
    tank1box,     \* playGame's parameters
    tank2box,
    obstacleBox,
    g,
    playerNum,    \* playGame's local: whose turn it is
    winner,       \* playGame's local: the value oneTurn returned last
    v,            \* oneTurn's locals (tankShot's parameters)
    theta,
    target,
    origin,
    x0,
    y0,
    x,            \* the sampled trajectory, before truncation
    y,
    xt,           \* the truncated trajectory (what tankShot plots and scans)
    yt,
    hit,          \* tankShot's return value
    box,          \* the box argument of firstInBox / endTrajectoryAtIntersection
    idx,          \* firstInBox's return value
    validRange,   \* getNumberInput's parameter
    typed,        \* what the user typed at the last prompt
    num,          \* getNumberInput's local / return value
    said,         \* the last line the program printed
    log           \* observer: what happened so far (turns, prompts, shooters)

vars == << pc, tank1box, tank2box, obstacleBox, g, playerNum, winner, v, theta,
           target, origin, x0, y0, x, y, xt, yt, hit, box, idx, validRange, typed, num,
           said, log >>

---------------------------------------------------------------------------
(* Bounds of the model *)

\* Binary digits after the point of the fixed-point numbers.
FracBits == 8

\* Number of samples tankShot asks of trajectory (the code asks for 10000).
ShotNpts == 8

\* Longest point sequence handed to firstInBox on its own.
MaxLen == 3

\* Largest coordinate (in whole units) of those points and boxes.
MaxCoord == 1

\* Number of turns of a game that the model follows.
MaxTurns == 4

\* Number of prompts of one getNumberInput call that the model follows.
MaxPrompts == 3

---------------------------------------------------------------------------
(* Floating point *)

Q == 2 ^ FracBits

Fix(n) == n * Q

PosInf == 2 ^ 30

NegInf == 0 - (2 ^ 30)

NaN == (2 ^ 30) + 1

IsFinite(a) == a > NegInf /\ a < PosInf

\* a <= b on doubles: false when either is NaN.
Le(a, b) == a # NaN /\ b # NaN /\ a <= b

\* Round-to-nearest a/b for b > 0.
RoundDiv(a, b) == ((2 * a) + b) \div (2 * b)

Mul(a, b) == RoundDiv(a * b, Q)

Div(a, b) == IF b > 0 THEN RoundDiv(a * Q, b) ELSE RoundDiv((0 - a) * Q, 0 - b)

RECURSIVE ISqrtBetween(_, _, _)
ISqrtBetween(n, lo, hi) ==
    IF lo >= hi THEN lo
    ELSE LET mid == (lo + hi + 1) \div 2
         IN  IF mid * mid <= n THEN ISqrtBetween(n, mid, hi)
             ELSE ISqrtBetween(n, lo, mid - 1)

\* np.sqrt of a non-negative number.
Sqrt(a) == ISqrtBetween(a * Q, 0, IF a * Q < 46340 THEN a * Q ELSE 46340)

\* 1000 * sin(theta degrees), for the angles the model's players enter.
SinMilli(deg) ==
    CASE deg = -90 -> -1000
      [] deg = -60 -> -866
      [] deg = -45 -> -707
      [] deg = -30 -> -500
      [] deg = 0   -> 0
      [] deg = 30  -> 500
      [] deg = 45  -> 707
      [] deg = 60  -> 866
      [] deg = 75  -> 966
      [] deg = 90  -> 1000
      [] deg = 105 -> 966
      [] deg = 120 -> 866
      [] deg = 135 -> 707
      [] deg = 150 -> 500
      [] deg = 165 -> 259
      [] deg = 180 -> 0
      [] deg = 195 -> -259
      [] deg = 210 -> -500
      [] deg = 225 -> -707
      [] deg = 240 -> -866
      [] deg = 270 -> -1000

\* np.sin(np.deg2rad(theta)) and np.cos(np.deg2rad(theta)); theta is a
\* fixed-point number of degrees.
Sin(th) == RoundDiv(SinMilli(th \div Q) * Q, 1000)

Cos(th) == Sin(th + Fix(90))

---------------------------------------------------------------------------
(* Boxes and points *)

\* InBox with the bounds taken as exclusive.
InBoxStrict(px, py, b) ==
    px # NaN /\ py # NaN /\ b[1] < px /\ px < b[2] /\ b[3] < py /\ py < b[4]

\* box = (left, right, bottom, top); the code's box[0..3] are box[1..4] here.
InBox(px, py, b) == Le(b[1], px) /\ Le(px, b[2]) /\ Le(b[3], py) /\ Le(py, b[4])

RECURSIVE FirstInBoxFrom(_, _, _, _)
FirstInBoxFrom(xs, ys, b, i) ==
    IF i >= Len(xs) THEN -1
    ELSE IF InBox(xs[i + 1], ys[i + 1], b) THEN i
    ELSE FirstInBoxFrom(xs, ys, b, i + 1)

firstInBox(xs, ys, b) == FirstInBoxFrom(xs, ys, b, 0)

\* endTrajectoryAtIntersection keeping the intersecting point: x[0:i+1].
endTrajectoryInclusive(xs, ys, b) ==
    LET i == firstInBox(xs, ys, b)
    IN  IF i < 0 THEN << xs, ys >>
        ELSE << SubSeq(xs, 1, i + 1), SubSeq(ys, 1, i + 1) >>

endTrajectoryAtIntersection(xs, ys, b) ==
    LET i == firstInBox(xs, ys, b)
    IN  IF i < 0 THEN << xs, ys >>
        ELSE << SubSeq(xs, 1, i), SubSeq(ys, 1, i) >>

---------------------------------------------------------------------------
(* The trajectory engine *)

NaNs(npts) == [i \in 1..npts |-> NaN]

\* The value of a one-element set: Only({e(a) : a \in {b}}) is e(b), with b
\* computed once.
Only(S) == CHOOSE e \in S : TRUE

\* np.linspace(0, stop, npts): sample i (i = 0 .. npts-1) is i * step, and the
\* last sample is stop itself.
linspace(stop, npts) ==
    Only({ [i \in 1..npts |-> IF i = npts THEN stop ELSE (i - 1) * step] :
           step \in { Div(stop, Fix(npts - 1)) } })

\* The flight time of a shot from the ground: 2*vy/g, which forgets y0.
TFinalFromGround(vy, py0, pg) == Div(2 * vy, pg)

\* tfinal = vy/g + np.sqrt((vy/g)**2 + 2*y0/g), for g # 0; NaN when the
\* square root is taken of a negative number.
TFinal(vy, py0, pg) ==
    LET d == Mul(Div(vy, pg), Div(vy, pg)) + Div(2 * py0, pg)
    IN  IF d < 0 THEN NaN ELSE Div(vy, pg) + Sqrt(d)

\* x = x0 + vx * t ;  y = y0 + vy * t - 0.5 * g * t**2
SamplesAt(px0, py0, vx, vy, pg, t) ==
    << [i \in DOMAIN t |-> px0 + Mul(vx, t[i])],
       [i \in DOMAIN t |->
           (py0 + Mul(vy, t[i])) - Mul(Mul(Q \div 2, pg), Mul(t[i], t[i]))] >>

Flight(px0, py0, vx, vy, pg, npts) ==
    Only({ IF tfinal = NaN THEN << NaNs(npts), NaNs(npts) >>
           ELSE SamplesAt(px0, py0, vx, vy, pg, linspace(tfinal, npts)) :
           tfinal \in { TFinal(vy, py0, pg) } })

\* trajectory(x0, y0, v, theta, g, npts), for g # 0: the pair (x, y) of sample
\* sequences.  A non-finite v or theta makes vy, tfinal or 0.5*g*t**2 NaN or
\* infinite at every sample, and y NaN: no sample is then a point of the plane.
trajectory(px0, py0, pv, pth, pg, npts) ==
    IF ~IsFinite(pv) \/ ~IsFinite(pth) THEN << NaNs(npts), NaNs(npts) >>
    ELSE Only({ Flight(px0, py0, vel[1], vel[2], pg, npts) :
                vel \in { << Mul(pv, Cos(pth)), Mul(pv, Sin(pth)) >> } })

\* An error for every gravity that is not positive.
RaisesUnlessPositive(pg) == pg <= 0

\* 2*y0/g divides two Python floats (g is documented as a float, and y0 is
\* one): g = 0 raises ZeroDivisionError out of trajectory.
DivisionRaises(pg) == pg = 0

\* tankShot without the truncation at the obstacle.
ShotPathWhole(tr, obstacle) == tr

\* tankShot returning firstInBox's index as the truth value: -1 is true in
\* Python, and 0 is false.
ShotHitsTruthy(path, targetBox) == firstInBox(path[1], path[2], targetBox) # 0

\* x,y = endTrajectoryAtIntersection(x,y,obstacleBox): the path tankShot plots.
ShotPath(tr, obstacle) == endTrajectoryAtIntersection(tr[1], tr[2], obstacle)

\* firstInBox(x,y,targetBox) >= 0 on that path: tankShot's return value.
ShotHits(path, targetBox) == firstInBox(path[1], path[2], targetBox) >= 0

tankShot(targetBox, obstacle, px0, py0, pv, pth, pg) ==
    ShotHits(ShotPath(trajectory(px0, py0, pv, pth, pg, ShotNpts), obstacle),
             targetBox)

---------------------------------------------------------------------------
(* The input collaborator *)

\* float(text): the numbers the model's users type, and what float() makes
\* of them.  float() raises ValueError on the other texts.
Parses(text) == text \in {"nan", "inf", "-inf", "-5", "0", "3", "10", "20",
                          "39", "45", "75", "90", "105"}

ParseFloat(text) ==
    CASE text = "nan"  -> NaN
      [] text = "inf"  -> PosInf
      [] text = "-inf" -> NegInf
      [] text = "-5"   -> 0 - Fix(5)
      [] text = "0"    -> 0
      [] text = "3"    -> Fix(3)
      [] text = "10"   -> Fix(10)
      [] text = "20"   -> Fix(20)
      [] text = "39"   -> Fix(39)
      [] text = "45"   -> Fix(45)
      [] text = "75"   -> Fix(75)
      [] text = "90"   -> Fix(90)
      [] text = "105"  -> Fix(105)

\* The range the complaint announces, "[min, max)": max excluded.
InRangeHalfOpen(n, range) == Le(range[1], n) /\ n # NaN /\ range[2] # NaN /\ n < range[2]

\* num >= validRange[0] and num <= validRange[1]
InRange(n, range) == Le(range[1], n) /\ Le(n, range[2])

\* One pass of getNumberInput's loop accepts the text typed.
Accepts(text, range) == Parses(text) /\ InRange(ParseFloat(text), range)

\* What one pass of the loop prints when it does not return.
Complaint(text) ==
    IF Parses(text) THEN "Please enter a value in the range"
    ELSE "Please enter a number"

DefaultRange == << NegInf, PosInf >>

---------------------------------------------------------------------------
(* The game: playGame, oneTurn and the prompts they block on *)

G98 == (98 * Q) \div 10

FixBox(b) == << Fix(b[1]), Fix(b[2]), Fix(b[3]), Fix(b[4]) >>

\* main()'s board; a board whose second tank stands under the first; a board
\* whose first tank and obstacle have left > right (the second tank stands
\* where the first would).
Boards ==
    { [t1 |-> << 10, 15, 0, 5 >>,   t2 |-> << 90, 95, 0, 5 >>, ob |-> << 40, 60, 0, 50 >>],
      [t1 |-> << 10, 15, 10, 20 >>, t2 |-> << 10, 15, 0, 5 >>, ob |-> << 40, 60, 0, 50 >>],
      [t1 |-> << 15, 10, 0, 5 >>,   t2 |-> << 10, 15, 0, 5 >>, ob |-> << 60, 40, 0, 50 >>] }

Gravities == { G98, 0, 0 - G98 }

VelocityTexts == { "abc", "nan", "inf", "0", "20", "39" }

AngleTexts == { "", "nan", "45", "75", "90", "105" }

\* turns: calls of oneTurn; shooters, outcomes: playerNum and result of each
\* tankShot; acks: acknowledgement prompts answered; prompts: input() calls of
\* the running getNumberInput; refused: the texts it has refused.
NoLog == [turns |-> 0, shooters |-> << >>, outcomes |-> << >>, prompts |-> 0,
          acks |-> 0, refused |-> << >>]

Init ==
    /\ pc = "start"
    /\ \E b \in Boards :
          /\ tank1box = FixBox(b.t1)
          /\ tank2box = FixBox(b.t2)
          /\ obstacleBox = FixBox(b.ob)
    /\ g \in Gravities
    /\ playerNum = 0
    /\ winner = 0
    /\ v = 0
    /\ theta = 0
    /\ target = << >>
    /\ origin = << >>
    /\ x0 = 0
    /\ y0 = 0
    /\ x = << >>
    /\ y = << >>
    /\ xt = << >>
    /\ yt = << >>
    /\ hit = FALSE
    /\ box = << >>
    /\ idx = -1
    /\ validRange = DefaultRange
    /\ typed = ""
    /\ num = 0
    /\ said = ""
    /\ log = NoLog

Board == << tank1box, tank2box, obstacleBox, g >>

Shot == << target, origin, x0, y0, x, y, xt, yt, hit >>

Harness == << box, idx >>

\* oneTurn aiming every shot at tank 2.
TargetAlwaysTank2(p) == tank2box

\* oneTurn returning playerNum whatever the shot did.
oneTurnAlwaysWins(h, p) == p

\* playGame's toggle with the else lost: the second test undoes the first.
OtherPlayerNoElse(p) == 1

\* oneTurn's choice of target and origin.
TargetOf(p) == IF p = 1 THEN tank2box ELSE tank1box

OriginOf(p) == IF p = 1 THEN tank1box ELSE tank2box

\* 0.5*(origin[0] + origin[1])
Center(lo, hi) == Mul(Q \div 2, lo + hi)

\* oneTurn's return value.
oneTurnResult(h, p) == IF h THEN p ELSE 0

\* playGame's toggle.
OtherPlayer(p) == IF p = 1 THEN 2 ELSE 1

\* playGame is called: playerNum = 1, oneTurn draws the board and blocks on
\* the velocity prompt.
PlayGame ==
    /\ pc = "start"
    /\ playerNum' = 1
    /\ pc' = "velocity"
    /\ validRange' = DefaultRange
    /\ log' = [log EXCEPT !.turns = 1, !.prompts = 1]
    /\ UNCHANGED << Board, Shot, Harness, winner, v, theta, typed, num, said >>

\* The velocity prompt is answered with a text getNumberInput does not accept:
\* it complains and prompts again.
VelocityRejected ==
    /\ pc = "velocity"
    /\ log.prompts < MaxPrompts
    /\ \E text \in VelocityTexts :
          /\ ~Accepts(text, validRange)
          /\ typed' = text
          /\ said' = Complaint(text)
    /\ log' = [log EXCEPT !.prompts = @ + 1, !.refused = Append(@, typed')]
    /\ UNCHANGED << Board, Shot, Harness, pc, playerNum, winner, v, theta,
                    validRange, num >>

\* The velocity prompt is answered with a number in range: getNumberInput
\* returns it and oneTurn blocks on the angle prompt.
VelocityEntered ==
    /\ pc = "velocity"
    /\ \E text \in VelocityTexts :
          /\ Accepts(text, validRange)
          /\ typed' = text
          /\ num' = ParseFloat(text)
          /\ v' = ParseFloat(text)
    /\ pc' = "angle"
    /\ log' = [log EXCEPT !.prompts = 1, !.refused = << >>]
    /\ UNCHANGED << Board, Shot, Harness, playerNum, winner, theta, validRange,
                    said >>

AngleRejected ==
    /\ pc = "angle"
    /\ log.prompts < MaxPrompts
    /\ \E text \in AngleTexts :
          /\ ~Accepts(text, validRange)
          /\ typed' = text
          /\ said' = Complaint(text)
    /\ log' = [log EXCEPT !.prompts = @ + 1, !.refused = Append(@, typed')]
    /\ UNCHANGED << Board, Shot, Harness, pc, playerNum, winner, v, theta,
                    validRange, num >>

\* The rest of oneTurn once the angle is read, and playGame's handling of
\* what it returns: the shot, then either the end of the game or the
\* acknowledgement prompt.
Fire(text, th, tgt, org, cx, cy, tr, cut) ==
    LET h == ShotHits(cut, tgt)
        w == oneTurnResult(h, playerNum)
    IN  /\ typed' = text
        /\ num' = th
        /\ theta' = th
        /\ target' = tgt
        /\ origin' = org
        /\ x0' = cx
        /\ y0' = cy
        /\ x' = tr[1]
        /\ y' = tr[2]
        /\ xt' = cut[1]
        /\ yt' = cut[2]
        /\ hit' = h
        /\ winner' = w
        /\ log' = [log EXCEPT !.shooters = Append(@, playerNum),
                              !.outcomes = Append(@, h),
                              !.prompts = 0, !.refused = << >>]
        /\ IF w # 0
             THEN pc' = "done" /\ said' = "Congratulations player"
             ELSE pc' = "ack" /\ said' = said
        /\ UNCHANGED << Board, Harness, playerNum, v, validRange >>

AngleEnteredShot ==
    /\ pc = "angle"
    /\ ~DivisionRaises(g)
    /\ \E text \in AngleTexts :
          /\ Accepts(text, validRange)
          /\ \E org \in { OriginOf(playerNum) } :
             \E c \in { << Center(org[1], org[2]), Center(org[3], org[4]) >> } :
             \E tr \in { trajectory(c[1], c[2], v, ParseFloat(text), g, ShotNpts) } :
             \E cut \in { ShotPath(tr, obstacleBox) } :
                Fire(text, ParseFloat(text), TargetOf(playerNum), org, c[1], c[2],
                     tr, cut)

\* g = 0: trajectory raises ZeroDivisionError, which nothing catches.
AngleEnteredRaise ==
    /\ pc = "angle"
    /\ DivisionRaises(g)
    /\ \E text \in AngleTexts :
          /\ Accepts(text, validRange)
          /\ typed' = text
          /\ num' = ParseFloat(text)
          /\ theta' = ParseFloat(text)
          /\ target' = TargetOf(playerNum)
          /\ origin' = OriginOf(playerNum)
          /\ x0' = Center(OriginOf(playerNum)[1], OriginOf(playerNum)[2])
          /\ y0' = Center(OriginOf(playerNum)[3], OriginOf(playerNum)[4])
    /\ pc' = "raised"
    /\ said' = "ZeroDivisionError"
    /\ log' = [log EXCEPT !.prompts = 0, !.refused = << >>]
    /\ UNCHANGED << Board, Harness, playerNum, winner, v, validRange, x, y, xt,
                    yt, hit >>

\* The player answers "hit enter to continue": playGame toggles playerNum and
\* the next oneTurn blocks on its velocity prompt.
Acknowledge ==
    /\ pc = "ack"
    /\ log.turns < MaxTurns
    /\ playerNum' = OtherPlayer(playerNum)
    /\ pc' = "velocity"
    /\ log' = [log EXCEPT !.turns = @ + 1, !.acks = @ + 1, !.prompts = 1]
    /\ UNCHANGED << Board, Shot, Harness, winner, v, theta, validRange, typed,
                    num, said >>

Next ==
    \/ PlayGame
    \/ VelocityRejected
    \/ VelocityEntered
    \/ AngleRejected
    \/ AngleEnteredShot
    \/ AngleEnteredRaise
    \/ Acknowledge

Spec == Init /\ [][Next]_vars

---------------------------------------------------------------------------
(* tankShot and trajectory called on their own *)

ShotOrigins == { << 0, Fix(1) >>, << Fix(2), Fix(5) \div 2 >> }

ShotVelocities == { 0, Fix(5), Fix(10) }

ShotAngles == { Fix(-45), 0, Fix(45), Fix(60), Fix(90), Fix(135) }

ShotGravities == { G98, Fix(2), 0 - G98 }

ShotBoxes ==
    { FixBox(<< 3, 6, 0, 4 >>), FixBox(<< 5, 12, 0, 3 >>), FixBox(<< 0, 2, 0, 3 >>),
      FixBox(<< 6, 3, 0, 4 >>), FixBox(<< 8, 30, -1, 14 >>), FixBox(<< -6, -1, 0, 5 >>) }

Idle ==
    /\ tank1box = << >>
    /\ tank2box = << >>
    /\ playerNum = 0
    /\ winner = 0
    /\ origin = << >>
    /\ validRange = DefaultRange
    /\ typed = ""
    /\ num = 0
    /\ said = ""
    /\ log = NoLog

InitShot ==
    /\ pc = "call"
    /\ target \in ShotBoxes
    /\ obstacleBox \in ShotBoxes
    /\ \E o \in ShotOrigins : x0 = o[1] /\ y0 = o[2]
    /\ v \in ShotVelocities
    /\ theta \in ShotAngles
    /\ g \in ShotGravities
    /\ x = << >>
    /\ y = << >>
    /\ xt = << >>
    /\ yt = << >>
    /\ hit = FALSE
    /\ box = << >>
    /\ idx = -1
    /\ Idle

\* x,y = trajectory(x0,y0,v,theta,g,npts)
CallTrajectory ==
    /\ pc = "call"
    /\ \E npts \in 2..ShotNpts :
       \E tr \in { trajectory(x0, y0, v, theta, g, npts) } :
          /\ x' = tr[1]
          /\ y' = tr[2]
    /\ pc' = "trajectory returned"
    /\ UNCHANGED << tank1box, tank2box, obstacleBox, g, playerNum, winner, v,
                    theta, target, origin, x0, y0, xt, yt, hit, box, idx,
                    validRange, typed, num, said, log >>

\* hit = tankShot(target, obstacleBox, x0, y0, v, theta, g)
CallTankShot ==
    /\ pc = "call"
    /\ \E tr \in { trajectory(x0, y0, v, theta, g, ShotNpts) } :
       \E cut \in { ShotPath(tr, obstacleBox) } :
          /\ x' = tr[1]
          /\ y' = tr[2]
          /\ xt' = cut[1]
          /\ yt' = cut[2]
    /\ hit' = tankShot(target, obstacleBox, x0, y0, v, theta, g)
    /\ pc' = "tankShot returned"
    /\ UNCHANGED << tank1box, tank2box, obstacleBox, g, playerNum, winner, v,
                    theta, target, origin, x0, y0, box, idx, validRange, typed,
                    num, said, log >>

NextShot == CallTrajectory \/ CallTankShot

SpecShot == InitShot /\ [][NextShot]_vars

---------------------------------------------------------------------------
(* firstInBox and endTrajectoryAtIntersection called on their own *)

XCoords == { Fix(c) : c \in 0..MaxCoord } \cup { NaN }

YCoords == { 0, Fix(1) }

RECURSIVE SeqsUpTo(_, _)
SeqsUpTo(S, n) ==
    IF n = 0 THEN { << >> }
    ELSE LET shorter == SeqsUpTo(S, n - 1)
         IN  shorter \cup { Append(q, e) : q \in shorter, e \in S }

BoxArgs == { << l, r, b, t >> : l \in XCoords \ { NaN }, r \in XCoords \ { NaN },
                                 b \in YCoords, t \in YCoords }

InitBox ==
    /\ pc = "call"
    /\ \E pts \in SeqsUpTo(XCoords \X YCoords, MaxLen) :
          /\ x = [i \in 1..Len(pts) |-> pts[i][1]]
          /\ y = [i \in 1..Len(pts) |-> pts[i][2]]
    /\ box \in BoxArgs
    /\ idx = -1
    /\ xt = << >>
    /\ yt = << >>
    /\ obstacleBox = << >>
    /\ target = << >>
    /\ g = 0
    /\ v = 0
    /\ theta = 0
    /\ x0 = 0
    /\ y0 = 0
    /\ hit = FALSE
    /\ Idle

\* idx = firstInBox(x, y, box)
CallFirstInBox ==
    /\ pc = "call"
    /\ idx' = firstInBox(x, y, box)
    /\ pc' = "firstInBox returned"
    /\ UNCHANGED << tank1box, tank2box, obstacleBox, g, playerNum, winner, v,
                    theta, target, origin, x0, y0, x, y, xt, yt, hit, box,
                    validRange, typed, num, said, log >>

\* xt, yt = endTrajectoryAtIntersection(x, y, box)
CallEndTrajectory ==
    /\ pc = "call"
    /\ \E cut \in { endTrajectoryAtIntersection(x, y, box) } :
          /\ xt' = cut[1]
          /\ yt' = cut[2]
    /\ pc' = "endTrajectory returned"
    /\ UNCHANGED << tank1box, tank2box, obstacleBox, g, playerNum, winner, v,
                    theta, target, origin, x0, y0, x, y, hit, box, idx,
                    validRange, typed, num, said, log >>

NextBox == CallFirstInBox \/ CallEndTrajectory

SpecBox == InitBox /\ [][NextBox]_vars

---------------------------------------------------------------------------
(* getNumberInput called on its own *)

InputTexts == { "abc", "", "nan", "inf", "-inf", "-5", "0", "3", "10", "20" }

InputRanges == { DefaultRange, << 0, Fix(10) >>, << Fix(3), Fix(3) >>,
                 << Fix(10), 0 >>, << NegInf, 0 >> }

InitInput ==
    /\ pc = "input"
    /\ validRange \in InputRanges
    /\ typed = ""
    /\ num = 0
    /\ said = ""
    /\ log = [NoLog EXCEPT !.prompts = 1]
    /\ tank1box = << >>
    /\ tank2box = << >>
    /\ obstacleBox = << >>
    /\ target = << >>
    /\ origin = << >>
    /\ box = << >>
    /\ x = << >>
    /\ y = << >>
    /\ xt = << >>
    /\ yt = << >>
    /\ g = 0
    /\ v = 0
    /\ theta = 0
    /\ x0 = 0
    /\ y0 = 0
    /\ idx = -1
    /\ hit = FALSE
    /\ playerNum = 0
    /\ winner = 0

\* One pass of the loop that does not return: the except branch, or the
\* range complaint; then the prompt again.
InputRefused ==
    /\ pc = "input"
    /\ log.prompts < MaxPrompts
    /\ \E text \in InputTexts :
          /\ ~Accepts(text, validRange)
          /\ typed' = text
          /\ said' = Complaint(text)
    /\ log' = [log EXCEPT !.prompts = @ + 1, !.refused = Append(@, typed')]
    /\ UNCHANGED << Board, Shot, Harness, pc, playerNum, winner, v, theta,
                    validRange, num >>

\* The pass that returns num.
InputReturned ==
    /\ pc = "input"
    /\ \E text \in InputTexts :
          /\ Accepts(text, validRange)
          /\ typed' = text
          /\ num' = ParseFloat(text)
    /\ pc' = "returned"
    /\ UNCHANGED << Board, Shot, Harness, playerNum, winner, v, theta,
                    validRange, said, log >>

NextInput == InputRefused \/ InputReturned

SpecInput == InitInput /\ [][NextInput]_vars

---------------------------------------------------------------------------
(* The claims *)

Abs(a) == IF a < 0 THEN 0 - a ELSE a

Max(a, b) == IF a >= b THEN a ELSE b

Min(a, b) == IF a <= b THEN a ELSE b

Last(q) == q[Len(q)]

\* Point i (1-based) of the sequences xs, ys lies in box b, bounds included.
Inside(xs, ys, i, b) ==
    /\ xs[i] # NaN
    /\ ys[i] # NaN
    /\ b[1] <= xs[i]
    /\ xs[i] <= b[2]
    /\ b[3] <= ys[i]
    /\ ys[i] <= b[4]

PointsInside(xs, ys, b) == { i \in 1..Len(xs) : Inside(xs, ys, i, b) }

\* Two boxes share a point.
Overlap(a, b) ==
    /\ Max(a[1], b[1]) <= Min(a[2], b[2])
    /\ Max(a[3], b[3]) <= Min(a[4], b[4])

WellFormed(b) == b[1] <= b[2] /\ b[3] <= b[4]

BadSetup ==
    g <= 0 \/ ~WellFormed(tank1box) \/ ~WellFormed(tank2box) \/ ~WellFormed(obstacleBox)

\* A shot has just been resolved.
JustShot == pc \in { "ack", "done" }

\* Landing tolerance: a sixteenth of a unit.
Tol == Q \div 16

\* C1: tankShot returns hit exactly when some sample lies in the target box at
\* an index smaller than that of every sample lying in the obstacle box; a
\* sample in both boxes, or an obstacle sample first, makes it a miss.
C1_HitIffTargetBeforeObstacle ==
    pc = "tankShot returned" =>
        (hit <=> \E i \in PointsInside(x, y, target) :
                    \A j \in PointsInside(x, y, obstacleBox) : i < j)

\* A shot that reaches the target box, but only at or after the obstacle.
C1_Witness ==
    /\ pc = "tankShot returned"
    /\ ~hit
    /\ PointsInside(x, y, target) # { }
    /\ PointsInside(x, y, obstacleBox) # { }

\* C2: the game ends on the first turn whose shot hits and on no earlier one;
\* nothing follows that turn, and the winner is the player who shot it.
C2_EndsOnFirstHit ==
    /\ \A i \in 1..Len(log.outcomes) :
          log.outcomes[i] => (i = Len(log.outcomes) /\ pc = "done")
    /\ pc = "done" =>
          /\ log.outcomes # << >>
          /\ Last(log.outcomes)
          /\ winner = Last(log.shooters)
          /\ winner = playerNum
          /\ winner \in { 1, 2 }
          /\ log.turns = Len(log.shooters)
          /\ log.acks = Len(log.shooters) - 1
          /\ log.prompts = 0
          /\ ~ENABLED Next

\* The game is won by player 2 after a miss by player 1.
C2_Witness ==
    pc = "done" /\ Len(log.shooters) >= 2 /\ winner = 2

\* C3: player 1 shoots first and the shooters alternate 1,2,1,2,...: the
\* current player is 1 or 2 and has been toggled once per acknowledged miss.
C3_PlayersAlternate ==
    /\ \A i \in 1..Len(log.shooters) :
          log.shooters[i] = (IF i % 2 = 1 THEN 1 ELSE 2)
    /\ pc # "start" =>
          /\ playerNum \in { 1, 2 }
          /\ playerNum = (IF log.acks % 2 = 0 THEN 1 ELSE 2)
          /\ log.acks = (IF JustShot THEN Len(log.outcomes) - 1
                         ELSE Len(log.outcomes))
          /\ log.turns = log.acks + 1

\* Three misses in a row.
C3_Witness ==
    pc = "ack" /\ Len(log.shooters) >= 3

\* C4: player 1 shoots from the center of tank1box at tank2box and player 2
\* from the center of tank2box at tank1box, never at the shooter's own box.
C4_OriginAndTarget ==
    log.shooters # << >> =>
        LET p     == Last(log.shooters)
            own   == IF p = 1 THEN tank1box ELSE tank2box
            other == IF p = 1 THEN tank2box ELSE tank1box
        IN  /\ origin = own
            /\ target = other
            /\ target # own
            /\ 2 * x0 = own[1] + own[2]
            /\ 2 * y0 = own[3] + own[4]

\* Player 2 has shot.
C4_Witness ==
    log.shooters # << >> /\ Last(log.shooters) = 2 /\ JustShot

\* C5: firstInBox returns the lowest index of a point inside the box, bounds
\* included, and -1 exactly when there is none (so for no points at all).
C5_FirstInBoxLowestIndex ==
    pc = "firstInBox returned" =>
        LET I == PointsInside(x, y, box)
        IN  /\ (idx = -1) <=> (I = { })
            /\ idx # -1 => (idx + 1 \in I /\ \A i \in I : idx + 1 <= i)

\* The first point inside the box is not point 0 and lies on the box's edge.
C5_Witness ==
    /\ pc = "firstInBox returned"
    /\ idx >= 1
    /\ x[idx + 1] = box[2]

\* C6: endTrajectoryAtIntersection returns the points before the first one
\* inside the box, that one excluded, and the whole input when none is inside.
C6_PrefixBeforeIntersection ==
    pc = "endTrajectory returned" =>
        LET I == PointsInside(x, y, box)
        IN  IF I = { } THEN xt = x /\ yt = y
            ELSE LET k == CHOOSE i \in I : \A j \in I : i <= j
                 IN  /\ Len(xt) = k - 1
                     /\ Len(yt) = k - 1
                     /\ \A i \in 1..(k - 1) : xt[i] = x[i] /\ yt[i] = y[i]
                     /\ PointsInside(xt, yt, box) = { }
                     /\ (1 \in I => (xt = << >> /\ yt = << >>))

\* A sequence cut in the middle.
C6_Witness ==
    /\ pc = "endTrajectory returned"
    /\ Len(xt) > 0
    /\ Len(xt) < Len(x)

TargetBelow == target[1] <= x0 /\ x0 <= target[2] /\ target[3] < origin[3]

\* C8 as claimed: a shot with v = 0 from y0 > 0 (g > 0, the shooter's box
\* well formed) misses every target box that does not overlap the shooter's
\* box, and raises nothing.
C8_DropMissesDisjointTarget ==
    /\ (JustShot /\ v = 0 /\ y0 > 0 /\ g > 0 /\ WellFormed(origin)
          /\ ~Overlap(target, origin)) => ~hit
    /\ (pc = "raised") => ~(v = 0 /\ g > 0)

\* C8 as the code has it: the drop misses such a target unless the target
\* reaches below the shooter's box in the column of the origin.
C8_DropMissesUnlessBelow ==
    /\ (JustShot /\ v = 0 /\ y0 > 0 /\ g > 0 /\ WellFormed(origin)
          /\ ~Overlap(target, origin) /\ ~TargetBelow) => ~hit
    /\ (pc = "raised") => ~(v = 0 /\ g > 0)

\* A drop on a board of well-formed boxes whose tanks stand side by side.
C8_Witness ==
    /\ pc = "ack"
    /\ v = 0
    /\ y0 > 0
    /\ g > 0
    /\ WellFormed(target)
    /\ WellFormed(origin)
    /\ ~Overlap(target, origin)
    /\ ~TargetBelow
    /\ Len(y) = ShotNpts
    /\ \A i \in 1..Len(x) : x[i] = x0

\* The text reads as a number that lies within the range, ends included.
Valid(text, range) ==
    /\ Parses(text)
    /\ ParseFloat(text) # NaN
    /\ range[1] <= ParseFloat(text)
    /\ ParseFloat(text) <= range[2]

\* C9: getNumberInput raises nothing, returns only a parsed number within the
\* range, ends included, prompts again after each text that is not one, and
\* returns on the first text that is.
C9_ReturnsFirstValidEntry ==
    /\ pc \in { "input", "returned" }
    /\ \A i \in 1..Len(log.refused) : ~Valid(log.refused[i], validRange)
    /\ log.prompts = Len(log.refused) + 1
    /\ pc = "returned" =>
          /\ Valid(typed, validRange)
          /\ num = ParseFloat(typed)

\* A number equal to the upper end of the range is returned after a refusal.
C9_Witness ==
    /\ pc = "returned"
    /\ log.refused # << >>
    /\ num = validRange[2]
    /\ IsFinite(num)

\* C10: for g > 0 and y0 > 0 the last sample of trajectory has y = 0 within
\* the tolerance, and tfinal is not negative.
C10_LandsAtZero ==
    (pc = "trajectory returned" /\ g > 0 /\ y0 > 0) =>
        /\ Abs(Last(y)) <= Tol
        /\ TFinal(Mul(v, Sin(theta)), y0, g) >= 0

\* A shot fired downwards (vy < 0) from above the ground has landed.
C10_Witness ==
    /\ pc = "trajectory returned"
    /\ g > 0
    /\ y0 > 0
    /\ Mul(v, Sin(theta)) < 0
    /\ Len(y) = ShotNpts

===========================================================================
